---- MODULE Spec2Model ----
(***************************************************************************)
(* A model of the faasd deploy handler (pkg/provider/handlers/deploy.go):  *)
(* the HTTP handler returned by MakeDeployHandler, the deploy pipeline,    *)
(* createTask, and the pure helpers buildLabels, prepareEnv, getMounts and *)
(* validateSecrets.  Go strings are TLA+ strings; a Go map is a function   *)
(* with a finite domain of strings, and every `range` over a map takes its *)
(* iteration order as an explicit argument, because Go leaves it open.     *)
(***************************************************************************)
EXTENDS Integers, Sequences, FiniteSets, TLC

VARIABLES
    req,         \* request id -> the request as it arrives (body and decoded fields)
    pc,          \* request id -> position of its handler goroutine
    w,           \* request id -> the http.Error writes made on its ResponseWriter
    err,         \* request id -> deploy's local variable err
    deployErr,   \* request id -> the handler's deployErr (deploy's return value)
    envs,        \* request id -> deploy's local envs
    mounts,      \* request id -> deploy's local mounts
    labels,      \* request id -> deploy's local labels
    calls,       \* request id -> the collaborator calls it issued, with their outcome
    containers,  \* the runtime's containers: name -> what NewContainer was given
    tasks        \* the runtime's tasks: container name -> task state

vars == <<req, pc, w, err, deployErr, envs, mounts, labels, calls, containers, tasks>>

----------------------------------------------------------------------------
(* Bounds of the model *)

\* number of requests in flight at once in Spec
NumReqs == 2
\* longest list of secrets a request of SpecOne declares
MaxSecrets == 2
\* most labels, annotations or environment variables a request of SpecOne carries
MaxEntries == 2

----------------------------------------------------------------------------
(* Go values *)

\* a nil error, and an error carrying a message
NoError == <<>>
NewError(msg) == <<msg>>

\* map[string]string: the empty map, insertion, and the nil map
EmptyMap == [k \in {} |-> ""]
Put(m, k, v) == [x \in (DOMAIN m) \cup {k} |-> IF x = k THEN v ELSE m[x]]
NilMap == [nil |-> TRUE, m |-> EmptyMap]
GoMap(m) == [nil |-> FALSE, m |-> m]

\* the orders in which a `range` may visit the keys S of a map
Orders(S) ==
    {o \in [1..Cardinality(S) -> S] : \A i, j \in 1..Cardinality(S) : o[i] = o[j] => i = j}

StatusBadRequest == 400

----------------------------------------------------------------------------
(* path.Join of the Go standard library, as called by deploy and           *)
(* validateSecrets: the non-empty elements joined by "/", then path.Clean. *)

RECURSIVE SplitPath(_, _, _)
SplitPath(s, cur, acc) ==
    IF s = "" THEN Append(acc, cur)
    ELSE IF SubSeq(s, 1, 1) = "/"
         THEN SplitPath(Tail(s), "", Append(acc, cur))
         ELSE SplitPath(Tail(s), cur \o SubSeq(s, 1, 1), acc)

\* the elements Clean keeps, in order: "" and "." are dropped, ".." removes the
\* element before it (or stays, in a relative path with nothing left to remove)
RECURSIVE CleanElems(_, _, _)
CleanElems(comps, out, rooted) ==
    IF comps = <<>> THEN out
    ELSE LET c == Head(comps)
             rest == Tail(comps)
         IN  IF c = "" \/ c = "." THEN CleanElems(rest, out, rooted)
             ELSE IF c = ".."
                  THEN IF out # <<>> /\ out[Len(out)] # ".."
                       THEN CleanElems(rest, SubSeq(out, 1, Len(out) - 1), rooted)
                       ELSE IF rooted THEN CleanElems(rest, out, rooted)
                            ELSE CleanElems(rest, Append(out, c), rooted)
                  ELSE CleanElems(rest, Append(out, c), rooted)

RECURSIVE JoinWith(_, _)
JoinWith(elems, sep) ==
    IF elems = <<>> THEN ""
    ELSE IF Len(elems) = 1 THEN elems[1]
    ELSE elems[1] \o sep \o JoinWith(Tail(elems), sep)

\* comps and kept are bound as set elements, so that each is computed once
pathClean(p) ==
    IF p = "" THEN "."
    ELSE LET rooted == SubSeq(p, 1, 1) = "/"
             Rendered(kept) == IF rooted THEN "/" \o JoinWith(kept, "/")
                               ELSE IF kept = <<>> THEN "." ELSE JoinWith(kept, "/")
         IN  CHOOSE cleaned \in
                 {Rendered(kept) : kept \in {CleanElems(comps, <<>>, rooted) :
                                               comps \in {SplitPath(p, "", <<>>)}}} : TRUE

pathJoin(a, b) ==
    IF a = "" /\ b = "" THEN ""
    ELSE IF a = "" THEN pathClean(b)
    ELSE pathClean(a \o "/" \o b)

----------------------------------------------------------------------------
(* Configuration handed to MakeDeployHandler, and the host it runs on *)

annotationLabelPrefix == "com.openfaas.annotations."

\* the secretMountPath argument of MakeDeployHandler
secretMountPath == "/var/lib/faasd/secrets"
\* what os.Getwd returns in getMounts
wd == "/var/lib/faasd-provider"
\* the paths os.Stat finds on the host
ExistingPaths ==
    {"/", "/var", "/var/lib", "/var/lib/faasd", "/var/lib/faasd/secrets",
     "/var/lib/faasd/secrets/api-key", "/var/lib/faasd/secrets/db-user"}

\* os.Stat(p) returns no error
StatOk(p) == p \in ExistingPaths

----------------------------------------------------------------------------
(* validateSecrets: the first secret without a file is the error *)

RECURSIVE validateSecrets(_, _)
validateSecrets(mountPath, secrets) ==
    IF secrets = <<>> THEN NoError
    ELSE IF ~StatOk(pathJoin(mountPath, Head(secrets)))
         THEN NewError("unable to find secret: " \o Head(secrets))
         ELSE validateSecrets(mountPath, Tail(secrets))

----------------------------------------------------------------------------
(* buildLabels *)

\* lines 130-134: copy the explicit labels, visiting the keys in the order ord
RECURSIVE CopyLabels(_, _, _)
CopyLabels(acc, src, ord) ==
    IF ord = <<>> THEN acc
    ELSE CopyLabels(Put(acc, Head(ord), src[Head(ord)]), src, Tail(ord))

\* lines 137-144: add the prefixed annotations, visiting the keys in the order ord
RECURSIVE MergeAnnotations(_, _, _)
MergeAnnotations(acc, ann, ord) ==
    IF ord = <<>> THEN [labels |-> GoMap(acc), err |-> NoError]
    ELSE LET k == Head(ord)
             key == annotationLabelPrefix \o k
         IN  IF key \notin DOMAIN acc
             THEN MergeAnnotations(Put(acc, key, ann[k]), ann, Tail(ord))
             ELSE [labels |-> NilMap,
                   err |-> NewError("Keys " \o k \o
                               " can not be used as a labels as is clashes with annotations")]

\* buildLabels without the prefix: annotations go in under their own key
buildLabelsUnprefixed(request, ordL, ordA) ==
    LET L == IF request.Labels.nil THEN EmptyMap ELSE request.Labels.m
        A == IF request.Annotations.nil THEN EmptyMap ELSE request.Annotations.m
    IN  IF \E k \in DOMAIN A : k \in DOMAIN L
        THEN [labels |-> NilMap, err |-> NewError("Keys can not be used as a labels")]
        ELSE [labels |-> GoMap([x \in (DOMAIN L) \cup (DOMAIN A) |->
                                   IF x \in DOMAIN A THEN A[x] ELSE L[x]]),
              err |-> NoError]

\* buildLabels without the collision check: an annotation overwrites the label
buildLabelsOverwriting(request, ordL, ordA) ==
    LET L == IF request.Labels.nil THEN EmptyMap ELSE request.Labels.m
        A == IF request.Annotations.nil THEN EmptyMap ELSE request.Annotations.m
        P == {annotationLabelPrefix \o k : k \in DOMAIN A}
    IN  [labels |-> GoMap([x \in (DOMAIN L) \cup P |->
                              IF x \in P
                              THEN A[CHOOSE k \in DOMAIN A : x = annotationLabelPrefix \o k]
                              ELSE L[x]]),
         err |-> NoError]

\* request.Labels and request.Annotations are pointers to maps: nil, or a map
buildLabels(request, ordL, ordA) ==
    LET copied == IF request.Labels.nil THEN EmptyMap
                  ELSE CopyLabels(EmptyMap, request.Labels.m, ordL)
    IN  IF request.Annotations.nil THEN [labels |-> GoMap(copied), err |-> NoError]
        ELSE MergeAnnotations(copied, request.Annotations.m, ordA)

----------------------------------------------------------------------------
(* prepareEnv *)

\* lines 196-203: one pass over reqEnvVars in the order ord
RECURSIVE EnvLoop(_, _, _)
EnvLoop(st, reqEnvVars, ord) ==
    IF ord = <<>> THEN st
    ELSE LET k == Head(ord)
             v == reqEnvVars[k]
         IN  IF k = "fprocess"
             THEN EnvLoop([st EXCEPT !.fprocessFound = TRUE, !.fprocess = v],
                          reqEnvVars, Tail(ord))
             ELSE EnvLoop([st EXCEPT !.envs = Append(@, k \o "=" \o v)],
                          reqEnvVars, Tail(ord))

prepareEnv(envProcess, reqEnvVars, ord) ==
    LET st0 == [envs |-> <<>>,
                fprocessFound |-> Len(envProcess) > 0,
                fprocess |-> "fprocess=" \o envProcess]
        st == EnvLoop(st0, reqEnvVars, ord)
    IN  IF st.fprocessFound THEN Append(st.envs, st.fprocess) ELSE st.envs

----------------------------------------------------------------------------
(* getMounts, and the secret mounts deploy appends *)

BindMount(dst, src) ==
    [Destination |-> dst, Type |-> "bind", Source |-> src, Options |-> <<"rbind", "ro">>]

getMounts ==
    << BindMount("/etc/resolv.conf", pathJoin(wd, "resolv.conf")),
       BindMount("/etc/hosts", pathJoin(wd, "hosts")) >>

\* the mount of one secret with source and destination exchanged
SecretMountSwapped(mountPath, secret) ==
    BindMount(pathJoin(mountPath, secret), pathJoin("/var/openfaas/secrets", secret))

\* lines 93-98: the mount of one secret
SecretMount(mountPath, secret) ==
    BindMount(pathJoin("/var/openfaas/secrets", secret), pathJoin(mountPath, secret))

\* lines 92-99
RECURSIVE AppendSecretMounts(_, _, _)
AppendSecretMounts(ms, mountPath, secrets) ==
    IF secrets = <<>> THEN ms
    ELSE AppendSecretMounts(Append(ms, SecretMount(mountPath, Head(secrets))),
                            mountPath, Tail(secrets))

----------------------------------------------------------------------------
(* reference.ParseNormalizedNamed and reference.TagNameOnly, on the image  *)
(* references the requests of the model carry                              *)

\* the references that parse, with their normalized, default-tagged form
NormalizedRefs ==
    ("alpine" :> "docker.io/library/alpine:latest") @@
    ("ghcr.io/openfaas/figlet:0.13" :> "ghcr.io/openfaas/figlet:0.13")

\* lines 70-74
ParseNormalizedNamed(image) ==
    IF image \in DOMAIN NormalizedRefs
    THEN [ref |-> NormalizedRefs[image], err |-> NoError]
    ELSE [ref |-> "", err |-> NewError("invalid reference format")]

----------------------------------------------------------------------------
(* Requests *)

\* a request whose JSON body names only the service and the image
DefaultRequest ==
    [body |-> "json", Service |-> "echo", Image |-> "alpine", EnvProcess |-> "",
     EnvVars |-> EmptyMap, Secrets |-> <<>>, Labels |-> NilMap, Annotations |-> NilMap]

\* maps from at most n of the keys K to the values V
MapsOver(K, V, n) ==
    UNION {[S -> V] : S \in {T \in SUBSET K : Cardinality(T) <= n}}

\* sequences over S of length at most n
SeqsUpTo(S, n) == UNION {[1..k -> S] : k \in 0..n}

ServiceNames == {"echo", "figlet"}
SecretNames == {"api-key", "db-password", "", ".."}
LabelKeys == {"function_name", "com.openfaas.annotations.current-time", "com.openfaas.scale.min"}
AnnotationKeys == {"current-time", "topic"}
LabelValues == {"echo", "X"}
EnvKeys == {"fprocess", "mode", "write_timeout"}
EnvValues == {"node index.js", "http"}
EnvProcesses == {"", "python3", "node index.js"}

\* requests that differ from the default in the way they fail, or in their name
BaseRequests ==
    { [DefaultRequest EXCEPT !.body = "nil"],
      [DefaultRequest EXCEPT !.body = "malformed"],
      [DefaultRequest EXCEPT !.Image = "Alpine:"],
      [DefaultRequest EXCEPT !.Secrets = <<"db-password">>],
      [DefaultRequest EXCEPT !.Labels = GoMap("function_name" :> "echo"),
                             !.Annotations = GoMap("current-time" :> "X")],
      [DefaultRequest EXCEPT !.Labels = GoMap("com.openfaas.annotations.current-time" :> "echo"),
                             !.Annotations = GoMap("current-time" :> "X")] }
    \cup {[DefaultRequest EXCEPT !.Service = s] : s \in ServiceNames}

\* requests that vary the labels and annotations
LabelRequests ==
    {[DefaultRequest EXCEPT !.Labels = l, !.Annotations = a] :
        l \in {NilMap} \cup {GoMap(m) : m \in MapsOver(LabelKeys, LabelValues, MaxEntries)},
        a \in {NilMap} \cup {GoMap(m) : m \in MapsOver(AnnotationKeys, LabelValues, MaxEntries)}}

\* requests that vary the environment
EnvRequests ==
    {[DefaultRequest EXCEPT !.EnvProcess = p, !.EnvVars = e] :
        p \in EnvProcesses, e \in MapsOver(EnvKeys, EnvValues, MaxEntries)}

\* requests that vary the secrets
SecretRequests ==
    {[DefaultRequest EXCEPT !.Secrets = s] : s \in SeqsUpTo(SecretNames, MaxSecrets)}

----------------------------------------------------------------------------
(* The runtime's state *)

\* a container left by an earlier deployment
OldContainer == [labels |-> GoMap(EmptyMap), mounts |-> getMounts, envs |-> <<>>, by |-> 0]

NewTaskState == [state |-> "created", network |-> FALSE, waiting |-> FALSE, observed |-> FALSE]

\* one more collaborator call in request r's history
Called(r, op, ok) == calls' = [calls EXCEPT ![r] = Append(@, [op |-> op, ok |-> ok])]

\* http.Error(w, msg, code)
HttpError(r, msg, code) == w' = [w EXCEPT ![r] = Append(@, [code |-> code, body |-> msg])]

\* deploy returns e and the handler answers, lines 60-66: an error is written
\* with http.Error, after success nothing is written
Return(r, e) ==
    /\ deployErr' = [deployErr EXCEPT ![r] = e]
    /\ IF e # NoError THEN HttpError(r, e[1], StatusBadRequest) ELSE UNCHANGED w
    /\ pc' = [pc EXCEPT ![r] = "done"]

\* deploy goes on to its next step
Goto(r, next) ==
    /\ pc' = [pc EXCEPT ![r] = next]
    /\ UNCHANGED <<w, deployErr>>

InitWith(ids, R, C) ==
    /\ req \in [ids -> R]
    /\ pc = [r \in ids |-> "accept"]
    /\ w = [r \in ids |-> <<>>]
    /\ err = [r \in ids |-> NoError]
    /\ deployErr = [r \in ids |-> NoError]
    /\ envs = [r \in ids |-> <<>>]
    /\ mounts = [r \in ids |-> <<>>]
    /\ labels = [r \in ids |-> NilMap]
    /\ calls = [r \in ids |-> <<>>]
    /\ containers \in C
    /\ tasks = EmptyMap

----------------------------------------------------------------------------
(* The handler, lines 31-58: body check, JSON decoding, validateSecrets *)

HandleRequest(r) ==
    /\ pc[r] = "accept"
    /\ \/ /\ req[r].body = "nil"
          /\ HttpError(r, "expected a body", StatusBadRequest)
          /\ pc' = [pc EXCEPT ![r] = "done"]
       \/ /\ req[r].body = "malformed"
          /\ HttpError(r, "unexpected end of JSON input", StatusBadRequest)
          /\ pc' = [pc EXCEPT ![r] = "done"]
       \/ /\ req[r].body = "json"
          /\ LET e == validateSecrets(secretMountPath, req[r].Secrets)
             IN  IF e # NoError
                 THEN HttpError(r, e[1], StatusBadRequest)
                 ELSE UNCHANGED w
          /\ pc' = [pc EXCEPT ![r] = "parse"]
    /\ UNCHANGED <<req, err, deployErr, envs, mounts, labels, calls, containers, tasks>>

\* the reference parsed, its error not looked at
ParseReferenceUnchecked(r) ==
    /\ pc[r] = "parse"
    /\ err' = [err EXCEPT ![r] = ParseNormalizedNamed(req[r].Image).err]
    /\ Goto(r, "prepareImage")
    /\ UNCHANGED <<req, envs, mounts, labels, calls, containers, tasks>>

(* deploy, lines 70-74 *)
ParseReference(r) ==
    /\ pc[r] = "parse"
    /\ LET p == ParseNormalizedNamed(req[r].Image)
       IN  IF p.err # NoError
           THEN /\ err' = [err EXCEPT ![r] = p.err]
                /\ Return(r, p.err)
           ELSE /\ Goto(r, "prepareImage")
                /\ UNCHANGED err
    /\ UNCHANGED <<req, envs, mounts, labels, calls, containers, tasks>>

(* deploy, lines 76-87: service.PrepareImage *)
PrepareImage(r) ==
    /\ pc[r] = "prepareImage"
    /\ LET imgRef == ParseNormalizedNamed(req[r].Image).ref
       IN  \/ /\ Called(r, "PrepareImage", TRUE)
              /\ Goto(r, "compose")
              /\ UNCHANGED err
           \/ /\ Called(r, "PrepareImage", FALSE)
              /\ err' = [err EXCEPT ![r] = NewError("pull access denied")]
              /\ Return(r, NewError("unable to pull image " \o imgRef \o ": pull access denied"))
    /\ UNCHANGED <<req, envs, mounts, labels, containers, tasks>>

(* deploy, lines 89-103: prepareEnv, getMounts, the secret mounts, buildLabels *)
ComposeSpec(r) ==
    /\ pc[r] = "compose"
    /\ \E ordE \in Orders(DOMAIN req[r].EnvVars),
          ordL \in Orders(DOMAIN req[r].Labels.m),
          ordA \in Orders(DOMAIN req[r].Annotations.m) :
          LET built == buildLabels(req[r], ordL, ordA)
          IN  /\ envs' = [envs EXCEPT ![r] = prepareEnv(req[r].EnvProcess, req[r].EnvVars, ordE)]
              /\ mounts' = [mounts EXCEPT ![r] =
                               AppendSecretMounts(getMounts, secretMountPath, req[r].Secrets)]
              /\ labels' = [labels EXCEPT ![r] = built.labels]
              /\ err' = [err EXCEPT ![r] = built.err]
    /\ Goto(r, "newContainer")
    /\ UNCHANGED <<req, calls, containers, tasks>>

\* client.NewContainer on a runtime that does not reject a name in use
NewContainerOverwriting(r) ==
    /\ pc[r] = "newContainer"
    /\ LET name == req[r].Service
       IN  \/ /\ Called(r, "NewContainer", FALSE)
              /\ err' = [err EXCEPT ![r] = NewError("snapshotter not loaded")]
              /\ Return(r, NewError("unable to create container: " \o name \o
                                    ", error: snapshotter not loaded"))
              /\ UNCHANGED containers
           \/ /\ Called(r, "NewContainer", TRUE)
              /\ containers' = Put(containers, name,
                                   [labels |-> labels[r], mounts |-> mounts[r],
                                    envs |-> envs[r], by |-> r])
              /\ err' = [err EXCEPT ![r] = NoError]
              /\ Goto(r, "newTask")
    /\ UNCHANGED <<req, envs, mounts, labels, tasks>>

(* deploy, lines 105-120: client.NewContainer; err is assigned anew *)
NewContainer(r) ==
    /\ pc[r] = "newContainer"
    /\ LET name == req[r].Service
           failed(cause) ==
               /\ Called(r, "NewContainer", FALSE)
               /\ err' = [err EXCEPT ![r] = NewError(cause)]
               /\ Return(r, NewError("unable to create container: " \o name \o
                                     ", error: " \o cause))
               /\ UNCHANGED containers
       IN  \/ /\ name \in DOMAIN containers
              /\ failed("container " \o name \o ": already exists")
           \/ /\ name \notin DOMAIN containers
              /\ failed("snapshotter not loaded")
           \/ /\ name \notin DOMAIN containers
              /\ Called(r, "NewContainer", TRUE)
              /\ containers' = Put(containers, name,
                                   [labels |-> labels[r], mounts |-> mounts[r],
                                    envs |-> envs[r], by |-> r])
              /\ err' = [err EXCEPT ![r] = NoError]
              /\ Goto(r, "newTask")
    /\ UNCHANGED <<req, envs, mounts, labels, tasks>>

----------------------------------------------------------------------------
(* createTask, lines 151-186 *)

\* createTask deletes the task of the request before it returns e
TaskFailedWithCleanup(r, op, e) ==
    /\ Called(r, op, FALSE)
    /\ Return(r, e)
    /\ tasks' = [n \in DOMAIN tasks \ {req[r].Service} |-> tasks[n]]

\* createTask returns e, which deploy returns to the handler (line 122)
TaskFailed(r, op, e) ==
    /\ Called(r, op, FALSE)
    /\ Return(r, e)
    /\ UNCHANGED tasks

\* container.NewTask tried again after a failure
NewTaskRetried(r) ==
    /\ pc[r] = "newTask"
    /\ LET name == req[r].Service
       IN  \/ /\ Called(r, "NewTask", TRUE)
              /\ tasks' = Put(tasks, name, NewTaskState)
              /\ Goto(r, "createCNINetwork")
           \/ /\ Called(r, "NewTask", FALSE)
              /\ UNCHANGED <<pc, w, deployErr, tasks>>
    /\ UNCHANGED <<req, err, envs, mounts, labels, containers>>

(* lines 153-162: container.NewTask *)
NewTask(r) ==
    /\ pc[r] = "newTask"
    /\ LET name == req[r].Service
       IN  \/ /\ Called(r, "NewTask", TRUE)
              /\ tasks' = Put(tasks, name, NewTaskState)
              /\ Goto(r, "createCNINetwork")
           \/ TaskFailed(r, "NewTask",
                         NewError("unable to start task: " \o name \o ", error: runtime failure"))
    /\ UNCHANGED <<req, err, envs, mounts, labels, containers>>

\* cninetwork.CreateCNINetwork, whose failure tears the task and the container down
CreateCNINetworkWithTeardown(r) ==
    /\ pc[r] = "createCNINetwork"
    /\ LET name == req[r].Service
       IN  \/ /\ Called(r, "CreateCNINetwork", TRUE)
              /\ tasks' = [tasks EXCEPT ![name].network = TRUE]
              /\ Goto(r, "getIPAddress")
              /\ UNCHANGED containers
           \/ /\ Called(r, "CreateCNINetwork", FALSE)
              /\ Return(r, NewError("failed to setup network"))
              /\ tasks' = [n \in DOMAIN tasks \ {name} |-> tasks[n]]
              /\ containers' = [n \in DOMAIN containers \ {name} |-> containers[n]]
    /\ UNCHANGED <<req, err, envs, mounts, labels>>

(* lines 164-169: cninetwork.CreateCNINetwork *)
CreateCNINetwork(r) ==
    /\ pc[r] = "createCNINetwork"
    /\ LET name == req[r].Service
       IN  \/ /\ Called(r, "CreateCNINetwork", TRUE)
              /\ tasks' = [tasks EXCEPT ![name].network = TRUE]
              /\ Goto(r, "getIPAddress")
           \/ TaskFailed(r, "CreateCNINetwork", NewError("failed to setup network"))
    /\ UNCHANGED <<req, err, envs, mounts, labels, containers>>

(* lines 171-175: cninetwork.GetIPAddress *)
GetIPAddress(r) ==
    /\ pc[r] = "getIPAddress"
    /\ \/ /\ Called(r, "GetIPAddress", TRUE)
          /\ Goto(r, "wait")
          /\ UNCHANGED tasks
       \/ TaskFailed(r, "GetIPAddress", NewError("unable to get IP address"))
    /\ UNCHANGED <<req, err, envs, mounts, labels, containers>>

\* task.Wait called, its subscription lost
TaskWaitUnregistered(r) ==
    /\ pc[r] = "wait"
    /\ Called(r, "Wait", TRUE)
    /\ Goto(r, "start")
    /\ UNCHANGED <<req, err, envs, mounts, labels, containers, tasks>>

(* lines 177-180: task.Wait registers the exit subscription *)
TaskWait(r) ==
    /\ pc[r] = "wait"
    /\ LET name == req[r].Service
       IN  \/ /\ Called(r, "Wait", TRUE)
              /\ tasks' = [tasks EXCEPT ![name].waiting = TRUE]
              /\ Goto(r, "start")
           \/ TaskFailed(r, "Wait",
                         NewError("Unable to wait for task to start: " \o name \o ": runtime failure"))
    /\ UNCHANGED <<req, err, envs, mounts, labels, containers>>

\* task.Start, after which createTask returns only once the process has exited
TaskStartBlocking(r) ==
    /\ pc[r] = "start"
    /\ LET name == req[r].Service
       IN  \/ /\ \A i \in DOMAIN calls[r] : calls[r][i].op # "Start"
              /\ Called(r, "Start", TRUE)
              /\ tasks' = [tasks EXCEPT ![name].state = "running"]
              /\ UNCHANGED <<pc, w, deployErr>>
           \/ /\ \E i \in DOMAIN calls[r] : calls[r][i].op = "Start"
              /\ tasks[name].state = "stopped"
              /\ Return(r, NoError)
              /\ UNCHANGED <<calls, tasks>>
           \/ /\ \A i \in DOMAIN calls[r] : calls[r][i].op # "Start"
              /\ TaskFailed(r, "Start",
                            NewError("Unable to start task: " \o name \o ": runtime failure"))
    /\ UNCHANGED <<req, err, envs, mounts, labels, containers>>

(* lines 182-185: task.Start; then createTask and deploy return nil *)
TaskStart(r) ==
    /\ pc[r] = "start"
    /\ LET name == req[r].Service
       IN  \/ /\ Called(r, "Start", TRUE)
              /\ tasks' = [tasks EXCEPT ![name].state = "running"]
              /\ Return(r, NoError)
           \/ TaskFailed(r, "Start",
                         NewError("Unable to start task: " \o name \o ": runtime failure"))
    /\ UNCHANGED <<req, err, envs, mounts, labels, containers>>

(* the runtime: the process of a started task exits; the exit reaches the  *)
(* subscription task.Wait registered, if there is one                      *)
ProcessExit(n) ==
    /\ tasks[n].state = "running"
    /\ tasks' = [tasks EXCEPT ![n].state = "stopped", ![n].observed = tasks[n].waiting]
    /\ UNCHANGED <<req, pc, w, err, deployErr, envs, mounts, labels, calls, containers>>

----------------------------------------------------------------------------
(* Specifications *)

Next ==
    \/ \E r \in DOMAIN req : HandleRequest(r)
    \/ \E r \in DOMAIN req : ParseReference(r)
    \/ \E r \in DOMAIN req : PrepareImage(r)
    \/ \E r \in DOMAIN req : ComposeSpec(r)
    \/ \E r \in DOMAIN req : NewContainer(r)
    \/ \E r \in DOMAIN req : NewTask(r)
    \/ \E r \in DOMAIN req : CreateCNINetwork(r)
    \/ \E r \in DOMAIN req : GetIPAddress(r)
    \/ \E r \in DOMAIN req : TaskWait(r)
    \/ \E r \in DOMAIN req : TaskStart(r)
    \/ \E n \in DOMAIN tasks : ProcessExit(n)

\* NumReqs requests handled concurrently, on a host without containers
Init == InitWith(1..NumReqs, BaseRequests, {EmptyMap})

Spec == Init /\ [][Next]_vars

(* the code one request runs, from the handler's entry to its return: every *)
(* statement of it is a step the goroutine takes once its call has returned *)
RequestStep(r) ==
    \/ HandleRequest(r)
    \/ ParseReference(r)
    \/ PrepareImage(r)
    \/ ComposeSpec(r)
    \/ NewContainer(r)
    \/ NewTask(r)
    \/ CreateCNINetwork(r)
    \/ GetIPAddress(r)
    \/ TaskWait(r)
    \/ TaskStart(r)

(* every collaborator call returns and the goroutine of each request keeps  *)
(* running; nothing is assumed of the started process, which may never exit *)
Fairness == \A r \in 1..NumReqs : WF_vars(RequestStep(r))

SpecFair == Init /\ [][Next]_vars /\ Fairness

(* the requests served one after the other: the handler takes up request r *)
(* only when every request before it has been answered                      *)
NextSeq ==
    \/ \E r \in DOMAIN req :
          /\ \A q \in DOMAIN req : q < r => pc[q] = "done"
          /\ HandleRequest(r)
    \/ \E r \in DOMAIN req : ParseReference(r)
    \/ \E r \in DOMAIN req : PrepareImage(r)
    \/ \E r \in DOMAIN req : ComposeSpec(r)
    \/ \E r \in DOMAIN req : NewContainer(r)
    \/ \E r \in DOMAIN req : NewTask(r)
    \/ \E r \in DOMAIN req : CreateCNINetwork(r)
    \/ \E r \in DOMAIN req : GetIPAddress(r)
    \/ \E r \in DOMAIN req : TaskWait(r)
    \/ \E r \in DOMAIN req : TaskStart(r)
    \/ \E n \in DOMAIN tasks : ProcessExit(n)

SpecSeq == Init /\ [][NextSeq]_vars

\* one request, drawn from every family of inputs, on a host where the service
\* "echo" may already have a container
InitOne ==
    InitWith({1}, BaseRequests \cup LabelRequests \cup EnvRequests \cup SecretRequests,
             {EmptyMap, "echo" :> OldContainer})

SpecOne == InitOne /\ [][Next]_vars

----------------------------------------------------------------------------
(* Vocabulary of the properties *)

\* request r issued the collaborator call op
Issued(r, op) == \E i \in DOMAIN calls[r] : calls[r][i].op = op
\* request r issued the collaborator call op, which succeeded
Succeeded(r, op) == \E i \in DOMAIN calls[r] : calls[r][i] = [op |-> op, ok |-> TRUE]
\* request r issued a collaborator call that failed
SomeCallFailed(r) == \E i \in DOMAIN calls[r] : ~calls[r][i].ok

\* the request was decoded from a JSON body
Decoded(r) == req[r].body = "json"
\* a declared secret of request r has no file under secretMountPath
MissingSecret(r) ==
    /\ Decoded(r)
    /\ \E i \in DOMAIN req[r].Secrets :
          pathJoin(secretMountPath, req[r].Secrets[i]) \notin ExistingPaths

\* the explicit labels and the annotations of request r, an absent mapping being empty
LabelsOf(r) == IF req[r].Labels.nil THEN EmptyMap ELSE req[r].Labels.m
AnnotationsOf(r) == IF req[r].Annotations.nil THEN EmptyMap ELSE req[r].Annotations.m
\* some explicit label key is the prefixed form of an annotation key
Collides(r) ==
    \E k \in DOMAIN AnnotationsOf(r) : (annotationLabelPrefix \o k) \in DOMAIN LabelsOf(r)

\* deploy has run lines 89-103 for request r: envs, mounts and labels are set
Composed(r) == Succeeded(r, "PrepareImage") /\ pc[r] # "compose"

\* the calls that provision: container creation and everything after it
ProvisioningCalls == {"NewContainer", "NewTask", "CreateCNINetwork", "GetIPAddress", "Wait", "Start"}

----------------------------------------------------------------------------
(* C1 *)

\* C1 (as claimed): a request that declares a secret without a file is answered
\* with the validateSecrets error and issues no container creation, task
\* creation, network attach, wait or start call.
C1_SecretGating ==
    \A r \in DOMAIN req :
        (MissingSecret(r) /\ pc[r] # "accept") =>
            /\ w[r] # <<>>
            /\ \A op \in ProvisioningCalls : ~Issued(r, op)

----------------------------------------------------------------------------
(* C2 *)

\* C2 (as claimed): when buildLabels fails for a request (its labels collide with
\* its prefixed annotations), the request never issues NewContainer, and no
\* container it created carries a nil label set.
C2_LabelMergeGate ==
    \A r \in DOMAIN req :
        (Composed(r) /\ Collides(r)) =>
            /\ ~Issued(r, "NewContainer")
            /\ \A n \in DOMAIN containers : containers[n].by = r => ~containers[n].labels.nil

----------------------------------------------------------------------------
(* C3 *)

\* C3: every Start call of a request comes after a successful network attach and,
\* later, a successful Wait of the same request; no request issues Start after a
\* failed Wait; and every task that is running or has exited has its exit
\* subscription registered, so every exit was observed.
C3_WaitBeforeStart ==
    /\ \A r \in DOMAIN req : \A i \in DOMAIN calls[r] :
          calls[r][i].op = "Start" =>
              /\ \E j, k \in 1..(i - 1) :
                    /\ j < k
                    /\ calls[r][j] = [op |-> "CreateCNINetwork", ok |-> TRUE]
                    /\ calls[r][k] = [op |-> "Wait", ok |-> TRUE]
              /\ \A k \in DOMAIN calls[r] : calls[r][k].op = "Wait" => calls[r][k].ok
    /\ \A n \in DOMAIN tasks :
          /\ tasks[n].state \in {"running", "stopped"} => tasks[n].waiting
          /\ tasks[n].state = "stopped" => tasks[n].observed

\* C3 witness: a started process has exited, while another request is still
\* under way, and the subscription observed the exit.
C3_Witness ==
    \E r \in DOMAIN req :
        /\ Succeeded(r, "Start")
        /\ \E q \in DOMAIN req : pc[q] \notin {"accept", "done"}
        /\ req[r].Service \in DOMAIN tasks
        /\ tasks[req[r].Service].state = "stopped"
        /\ tasks[req[r].Service].observed

----------------------------------------------------------------------------
(* C4 *)

\* some stage of request r failed: body, JSON, secrets, reference, label merge,
\* or a collaborator call
StageFailed(r) ==
    \/ req[r].body \in {"nil", "malformed"}
    \/ MissingSecret(r)
    \/ Decoded(r) /\ req[r].Image \notin DOMAIN NormalizedRefs
    \/ Composed(r) /\ Collides(r)
    \/ SomeCallFailed(r)

\* C4 (as claimed): a finished request is answered 400 exactly when a stage
\* failed, and with an empty success response exactly when its task was started.
C4_HttpOutcome ==
    \A r \in DOMAIN req :
        pc[r] = "done" =>
            /\ (w[r] # <<>>) <=> StageFailed(r)
            /\ (w[r] = <<>>) <=> Succeeded(r, "Start")
            /\ \A i \in DOMAIN w[r] : w[r][i].code = StatusBadRequest

----------------------------------------------------------------------------
(* C5 *)

----------------------------------------------------------------------------
(* C6 *)

\* C6: when some explicit label key is the prefixed form of an annotation key,
\* buildLabels returns an error and a nil mapping, in whatever order the
\* annotations were visited.
C6_LabelMergeCollision ==
    \A r \in DOMAIN req :
        (Composed(r) /\ Collides(r)) =>
            /\ labels[r] = NilMap
            /\ pc[r] = "newContainer" =>
                  \E k \in DOMAIN AnnotationsOf(r) :
                      /\ (annotationLabelPrefix \o k) \in DOMAIN LabelsOf(r)
                      /\ err[r] = NewError("Keys " \o k \o
                                    " can not be used as a labels as is clashes with annotations")

\* C6 witness: a collision on one of two annotations, the other one mergeable
\* (so that the visiting order decides whether a half-built mapping exists).
C6_Witness ==
    \E r \in DOMAIN req :
        /\ pc[r] = "newContainer"
        /\ Composed(r) /\ Collides(r)
        /\ Cardinality(DOMAIN AnnotationsOf(r)) = 2
        /\ \E k \in DOMAIN AnnotationsOf(r) :
              (annotationLabelPrefix \o k) \notin DOMAIN LabelsOf(r)
        /\ err[r] # NoError

----------------------------------------------------------------------------
(* C7 *)

\* e is an entry for the reserved key: it reads "fprocess=..."
IsReservedEntry(e) == Len(e) >= 9 /\ SubSeq(e, 1, 9) = "fprocess="

\* C7 (as claimed): when envVars holds the key "fprocess" with value v, the
\* environment ends with "fprocess=v", holds exactly one entry for the reserved
\* key, and holds no entry "fprocess=<envProcess>" for a different override.
C7_EnvPrecedence ==
    \A r \in DOMAIN req :
        (Composed(r) /\ "fprocess" \in DOMAIN req[r].EnvVars) =>
            LET v == req[r].EnvVars["fprocess"]
                e == envs[r]
            IN  /\ e # <<>>
                /\ e[Len(e)] = "fprocess=" \o v
                /\ Cardinality({i \in DOMAIN e : IsReservedEntry(e[i])}) = 1
                /\ req[r].EnvProcess # v =>
                      \A i \in DOMAIN e : e[i] # "fprocess=" \o req[r].EnvProcess

----------------------------------------------------------------------------
(* C8 *)

\* C8 (as claimed): the environment holds "KEY=VALUE" once for every key of
\* envVars other than "fprocess", one entry for the reserved key when envProcess
\* is non-empty or envVars holds "fprocess", none otherwise, and nothing else.
C8_EnvShape ==
    \A r \in DOMAIN req :
        Composed(r) =>
            LET e == envs[r]
                E == req[r].EnvVars
                others == (DOMAIN E) \ {"fprocess"}
                reserved == {i \in DOMAIN e : IsReservedEntry(e[i])}
                supplied == req[r].EnvProcess # "" \/ "fprocess" \in DOMAIN E
            IN  /\ \A k \in others :
                      Cardinality({i \in DOMAIN e : e[i] = k \o "=" \o E[k]}) = 1
                /\ Cardinality(reserved) = IF supplied THEN 1 ELSE 0
                /\ Len(e) = Cardinality(others) + (IF supplied THEN 1 ELSE 0)
                /\ (req[r].EnvProcess = "" /\ E = EmptyMap) => e = <<>>

----------------------------------------------------------------------------
(* C9 *)

\* the options of a read-only bind mount
IsReadOnlyBind(m) == m.Type = "bind" /\ m.Options = <<"rbind", "ro">>

PlainName(s) == s \notin {"", ".", ".."} /\ Len(SplitPath(s, "", <<>>)) = 1

----------------------------------------------------------------------------
(* C10 *)

\* C10 (as the test expects): for one explicit label and one annotation that do
\* not collide, buildLabels returns no error and a mapping of 4 entries that
\* holds the prefixed annotation key.
C10_TestExpectation ==
    \A r \in DOMAIN req :
        ( /\ Composed(r) /\ ~Collides(r)
          /\ Cardinality(DOMAIN LabelsOf(r)) = 1
          /\ Cardinality(DOMAIN AnnotationsOf(r)) = 1 ) =>
            /\ ~labels[r].nil
            /\ pc[r] = "newContainer" => err[r] = NoError
            /\ Cardinality(DOMAIN labels[r].m) = 4
            /\ \A k \in DOMAIN AnnotationsOf(r) :
                  (annotationLabelPrefix \o k) \in DOMAIN labels[r].m

----------------------------------------------------------------------------
(* C11 *)

\* the collaborator calls of one deployment, in the order of the code
PipelineOrder ==
    <<"PrepareImage", "NewContainer", "NewTask", "CreateCNINetwork", "GetIPAddress",
      "Wait", "Start">>

\* deploy was called for request r and returned nil
DeploySucceeded(r) == pc[r] = "done" /\ Decoded(r) /\ deployErr[r] = NoError

\* C11: the calls a request has issued are an initial part of image-provision,
\* container-create, task-create, network-attach, address-resolve, wait-register,
\* start: each at most once, in that order, every call but the last one issued
\* having succeeded; a request whose deploy succeeded issued all seven, all
\* successful; and a task is network-attached, wait-registered and started
\* exactly as far as the calls of the request that created it went.
C11_PipelineOrder ==
    /\ \A r \in DOMAIN req :
          /\ Len(calls[r]) <= Len(PipelineOrder)
          /\ \A i \in DOMAIN calls[r] :
                /\ calls[r][i].op = PipelineOrder[i]
                /\ i < Len(calls[r]) => calls[r][i].ok
          /\ DeploySucceeded(r) =>
                calls[r] = [i \in DOMAIN PipelineOrder |-> [op |-> PipelineOrder[i], ok |-> TRUE]]
    /\ \A n \in DOMAIN tasks :
          /\ n \in DOMAIN containers
          /\ LET r == containers[n].by
             IN  /\ r \in DOMAIN req
                 /\ Succeeded(r, "NewTask")
                 /\ tasks[n].network = Succeeded(r, "CreateCNINetwork")
                 /\ tasks[n].waiting = Succeeded(r, "Wait")
                 /\ (tasks[n].state \in {"running", "stopped"}) = Succeeded(r, "Start")
                 /\ (tasks[n].state = "created") = ~Succeeded(r, "Start")

\* C11 witness: one request ran the whole pipeline while another request of the
\* same name was stopped at container creation.
C11_Witness ==
    \E r, q \in DOMAIN req :
        /\ r # q
        /\ req[r].Service = req[q].Service
        /\ DeploySucceeded(r)
        /\ Len(calls[r]) = 7
        /\ calls[q] = <<[op |-> "PrepareImage", ok |-> TRUE], [op |-> "NewContainer", ok |-> FALSE]>>

----------------------------------------------------------------------------
(* C12 *)

\* the request's image reference does not parse
InvalidReference(r) == Decoded(r) /\ req[r].Image \notin DOMAIN NormalizedRefs

\* C12 (as claimed): a failure of any stage ends the request there, with an
\* error returned: after a missing secret no call is issued, after an invalid
\* reference none either, after a failed label merge no container is created,
\* after a failed collaborator call no further call follows; and a request is
\* answered with success only if no stage failed.
C12_ErrorPropagation ==
    \A r \in DOMAIN req :
        /\ (MissingSecret(r) /\ pc[r] # "accept") =>
              /\ pc[r] = "done"
              /\ calls[r] = <<>>
              /\ w[r] = <<[code |-> StatusBadRequest,
                           body |-> validateSecrets(secretMountPath, req[r].Secrets)[1]]>>
        /\ (InvalidReference(r) /\ pc[r] \notin {"accept", "parse"}) =>
              /\ pc[r] = "done"
              /\ calls[r] = <<>>
              /\ deployErr[r] # NoError
        /\ (Composed(r) /\ Collides(r)) =>
              /\ pc[r] = "done"
              /\ ~Issued(r, "NewContainer")
              /\ deployErr[r] # NoError
        /\ SomeCallFailed(r) =>
              /\ pc[r] = "done"
              /\ ~calls[r][Len(calls[r])].ok
              /\ deployErr[r] # NoError
        /\ (pc[r] = "done" /\ (w[r] = <<>> \/ Succeeded(r, "Start"))) => ~StageFailed(r)

----------------------------------------------------------------------------
(* C16 *)

\* C16: a request whose image reference does not parse gets the parse error from
\* deploy and issues no collaborator call; its environment, mounts and labels are
\* never composed, and no container or task is created by it.
C16_InvalidReference ==
    \A r \in DOMAIN req :
        (InvalidReference(r) /\ pc[r] \notin {"accept", "parse"}) =>
            /\ pc[r] = "done"
            /\ calls[r] = <<>>
            /\ deployErr[r] = NewError("invalid reference format")
            /\ w[r] # <<>>
            /\ w[r][Len(w[r])] = [code |-> StatusBadRequest, body |-> "invalid reference format"]
            /\ envs[r] = <<>> /\ mounts[r] = <<>> /\ labels[r] = NilMap
            /\ \A n \in DOMAIN containers : containers[n].by # r

\* C16 witness: a request with an invalid reference has been answered while a
\* request of the same name has created the container.
C16_Witness ==
    \E r, q \in DOMAIN req :
        /\ InvalidReference(r)
        /\ pc[r] = "done"
        /\ w[r] = <<[code |-> StatusBadRequest, body |-> "invalid reference format"]>>
        /\ req[q].Service = req[r].Service
        /\ Succeeded(q, "NewContainer")

----------------------------------------------------------------------------
(* C18 *)

\* C18 (as claimed): the handler writes at most one error response per request.
C18_SingleErrorResponse ==
    \A r \in DOMAIN req : Len(w[r]) <= 1

----------------------------------------------------------------------------
(* C13 *)

\* e is the error deploy makes of a failed NewContainer (line 119)
IsContainerCreationError(e) ==
    /\ e # NoError
    /\ Len(e[1]) >= 27
    /\ SubSeq(e[1], 1, 27) = "unable to create container:"

\* the decoded requests that carry the service name n
RequestsFor(n) == {r \in DOMAIN req : Decoded(r) /\ req[r].Service = n}

\* the calls of createTask
TaskCalls == {"NewTask", "CreateCNINetwork", "GetIPAddress", "Wait", "Start"}

\* C13 (as claimed): among the requests of one service name at most one creates
\* the container, at most one task is created and started, and every other
\* request issues no createTask call and returns a container-creation error.
C13_SameNameAsClaimed ==
    \A n \in ServiceNames :
        /\ Cardinality({r \in RequestsFor(n) : Succeeded(r, "NewContainer")}) <= 1
        /\ Cardinality({r \in RequestsFor(n) : Succeeded(r, "NewTask")}) <= 1
        /\ Cardinality({r \in RequestsFor(n) : Succeeded(r, "Start")}) <= 1
        /\ \A r, q \in RequestsFor(n) :
              (r # q /\ Succeeded(r, "NewContainer")) =>
                  /\ \A op \in TaskCalls : ~Issued(q, op)
                  /\ pc[q] = "done" => IsContainerCreationError(deployErr[q])

\* C13 (amended): among the requests of one service name at most one creates the
\* container, at most one task is created and started, and every other request
\* issues no createTask call and returns an error: the container-creation error
\* if it got as far as container creation (it may fail before, at the image
\* reference or at image provisioning).
C13_SameName ==
    \A n \in ServiceNames :
        /\ Cardinality({r \in RequestsFor(n) : Succeeded(r, "NewContainer")}) <= 1
        /\ Cardinality({r \in RequestsFor(n) : Succeeded(r, "NewTask")}) <= 1
        /\ Cardinality({r \in RequestsFor(n) : Succeeded(r, "Start")}) <= 1
        /\ \A r, q \in RequestsFor(n) :
              (r # q /\ Succeeded(r, "NewContainer")) =>
                  /\ \A op \in TaskCalls : ~Issued(q, op)
                  /\ pc[q] = "done" =>
                        /\ deployErr[q] # NoError
                        /\ Issued(q, "NewContainer") => IsContainerCreationError(deployErr[q])
                        /\ w[q] # <<>>

\* C13 witness: two requests of one name were both at container creation; one
\* created the container and started its task, the other was rejected.
C13_Witness ==
    \E r, q \in DOMAIN req :
        /\ r # q
        /\ req[r].Service = req[q].Service
        /\ Succeeded(r, "Start")
        /\ pc[q] = "done"
        /\ deployErr[q] = NewError("unable to create container: " \o req[q].Service \o
                                   ", error: container " \o req[q].Service \o ": already exists")

----------------------------------------------------------------------------
(* C14 *)

\* the positions inside createTask
TaskStages == {"newTask", "createCNINetwork", "getIPAddress", "wait", "start"}

\* the step in which request r leaves createTask with an error
FailsInCreateTask(r) ==
    /\ pc[r] \in TaskStages
    /\ pc'[r] = "done"
    /\ deployErr'[r] # NoError

\* C14: a failure of task creation, network attach, address resolution, wait
\* registration or start returns the error and leaves the containers and the
\* tasks exactly as they were; no step ever removes a container or a task, and
\* the only calls issued are those of the provisioning pipeline.
C14_NoRollback ==
    [][ /\ \A r \in DOMAIN req :
              FailsInCreateTask(r) =>
                  /\ containers' = containers
                  /\ tasks' = tasks
                  /\ w'[r] # <<>>
                  /\ req[r].Service \in DOMAIN containers'
        /\ DOMAIN containers \subseteq DOMAIN containers'
        /\ DOMAIN tasks \subseteq DOMAIN tasks'
        /\ \A r \in DOMAIN req : \A i \in DOMAIN calls'[r] :
              calls'[r][i].op \in {PipelineOrder[k] : k \in DOMAIN PipelineOrder}
      ]_vars

\* C14 witness: the network attach of a request failed and the request has
\* returned, while its container and its task are still there.
C14_Witness ==
    \E r \in DOMAIN req :
        /\ pc[r] = "done"
        /\ \E i \in DOMAIN calls[r] : calls[r][i] = [op |-> "CreateCNINetwork", ok |-> FALSE]
        /\ deployErr[r] # NoError
        /\ req[r].Service \in DOMAIN containers
        /\ containers[req[r].Service].by = r
        /\ req[r].Service \in DOMAIN tasks

----------------------------------------------------------------------------
(* C15 *)

\* C15: provided every collaborator call returns, every request eventually
\* terminates, in success or in failure; a request whose start call succeeded has
\* returned success in that very step, whether or not the process ever exits.
C15_Termination ==
    /\ \A r \in 1..NumReqs : <>(pc[r] = "done")
    /\ [](\A r \in 1..NumReqs :
             Succeeded(r, "Start") => (pc[r] = "done" /\ deployErr[r] = NoError))

\* C15 witness: a request has returned success while the process it started is
\* still running and nothing has been read from the wait subscription.
C15_Witness ==
    \E r \in DOMAIN req :
        /\ pc[r] = "done"
        /\ Succeeded(r, "Start")
        /\ deployErr[r] = NoError
        /\ req[r].Service \in DOMAIN tasks
        /\ tasks[req[r].Service].state = "running"
        /\ ~tasks[req[r].Service].observed

----------------------------------------------------------------------------
(* C17 *)

\* request q came after request r, for the same service, whose container r created
Poisoned(r, q) ==
    /\ r < q
    /\ Decoded(r) /\ Decoded(q)
    /\ req[r].Service = req[q].Service
    /\ Succeeded(r, "NewContainer")

\* the error of a NewContainer call that the runtime rejected for its name
AlreadyExists(n) ==
    NewError("unable to create container: " \o n \o ", error: container " \o n \o
             ": already exists")

\* C17 (as claimed): once a request has created the container of a service,
\* whatever became of that request, every later request for the service fails at
\* container creation and never reaches task creation or start.
C17_PoisonedAsClaimed ==
    \A r, q \in DOMAIN req :
        Poisoned(r, q) =>
            /\ \A op \in TaskCalls : ~Issued(q, op)
            /\ ~Succeeded(q, "NewContainer")
            /\ pc[q] = "done" => IsContainerCreationError(deployErr[q])

\* C17 (amended): once a request has created the container of a service,
\* whatever became of that request, the container stays, and every later request
\* for the service fails no later than at container creation: it never creates a
\* container, never reaches task creation or start, returns an error, and the
\* error is the runtime's rejection of the name if it got to container creation.
C17_Poisoned ==
    \A r, q \in DOMAIN req :
        Poisoned(r, q) =>
            /\ req[r].Service \in DOMAIN containers
            /\ containers[req[r].Service].by = r
            /\ \A op \in TaskCalls : ~Issued(q, op)
            /\ ~Succeeded(q, "NewContainer")
            /\ pc[q] \notin TaskStages
            /\ pc[q] = "done" => deployErr[q] # NoError
            /\ Issued(q, "NewContainer") =>
                  (pc[q] = "done" /\ deployErr[q] = AlreadyExists(req[q].Service))

\* C17 witness: a request created the container and then failed at the network
\* attach; the next request for the same service was rejected at container creation.
C17_Witness ==
    \E r, q \in DOMAIN req :
        /\ Poisoned(r, q)
        /\ \E i \in DOMAIN calls[r] : calls[r][i] = [op |-> "CreateCNINetwork", ok |-> FALSE]
        /\ pc[q] = "done"
        /\ deployErr[q] = AlreadyExists(req[q].Service)
        /\ calls[q][Len(calls[q])] = [op |-> "NewContainer", ok |-> FALSE]

====
